---- MODULE Spec2Model ----
(***************************************************************************)
(* Model of DBCog (src/dbcog/dbcog.py): the periodic refresh task, the     *)
(* forced reload commands, cog_unload and the query entry points, as       *)
(* coroutines on one cooperative scheduler.  A step of the model is what a *)
(* coroutine runs between two awaits; every await is a suspension point.   *)
(***************************************************************************)
EXTENDS Integers, Sequences, FiniteSets, TLC

\* ------------------------------------------------------------------ bounds
\* number of database objects load_database may create in one run
MaxGen == 2

\* length of the longest list of issues a graph, an index or run_tests has
MaxIssues == 101
\* length of the longest list of alt monsters
MaxAlts == 3
\* length of the longest list of awakenings of a monster
MaxAwakenings == 3

\* ------------------------------------------------------- program constants
\* SERVERS, imported from models.enum_types, in iteration order
SERVERS == <<"COMBINED", "NA">>
\* wait_time after a failed attempt, seconds
SHORT_WAIT == 60
\* wait_time after a successful attempt, seconds (60 * 60 * 4)
LONG_WAIT == 14400

\* number of issues check_index reports, issues[:100]
REPORT_CAP == 100

\* ---------------------------------------------------------------- processes
\* the task running reload_data_task
Periodic == "P"
\* concurrent invocations of forceindexreload
FirProcs == {"f1", "f2"}
\* concurrent invocations of forceindexreload3
Fir3Procs == {"g1", "g2"}
\* callers of find_monster / find_monsters
Queries == {"q1"}
\* callers of wait_until_ready and wait_until_ready_verbose
Waiters == {"w1", "w2"}
\* callers of get_fm_flags
FlagCallers == {"c1", "c2"}
\* the author_id they pass, 0 being the default of find_monster
Authors == {0, 1}

Reloaders == {Periodic} \cup FirProcs \cup Fir3Procs
\* coroutines that run download_and_refresh_nicknames
FullReloaders == {Periodic} \cup FirProcs

ServerSet == {SERVERS[i] : i \in 1..Len(SERVERS)}

VARIABLES
  is_ready,     \* self._is_ready (asyncio.Event): TRUE when set
  database,     \* self.database: 0 is None, k > 0 the k-th object load_database returned
  indexes,      \* self.indexes: server -> database whose graph it was built from, 0 absent
  mon_finder,   \* self.mon_finder is not None
  fir_lock,     \* self.fir_lock (asyncio.Lock): [locked, waiters]
  fir3_lock,    \* self.fir3_lock
  registered,   \* self == self.bot.get_cog('DBCog')
  nextGen,      \* number of database objects created so far
  debug_ids,    \* self.database.graph.debug_monster_ids of the last database loaded
  pc,           \* position of every reloading coroutine
  srv,          \* create_index: position of the for loop in SERVERS, 0 outside
  graph,        \* create_index: the self.database.graph passed to MonsterIndex
  calls,        \* history: calls of get_debug_monsters in the running refresh
  short_wait,   \* reload_data_task: short_wait
  outcome,      \* history: how the last periodic attempt ended, "none" while one runs
  before,       \* history: database and indexes when the running periodic attempt started
  completed,    \* history: runs of download_and_refresh_nicknames that returned
  qpc,          \* position of every query
  qstart,       \* history: database and indexes when the running query was called
  wpc,          \* position of every caller of wait_until_ready(_verbose)
  debug_mode,           \* config.debug_mode
  debug_mode_monsters,  \* config.debug_mode_monsters
  ci_pc,         \* position of the check_index task
  graph_issues,  \* self.database.graph.issues
  index_issues,  \* index.issues of the index of every server
  test_results,  \* what run_tests returns
  issues,        \* check_index: issues
  ci_debug,      \* history: debug_monster_ids of the graph whose issues were collected
  report,        \* the lines check_index sent, none when it sent nothing
  fm_flags_default,  \* self.fm_flags_default: a dict, its items in insertion order
  user_flags,        \* config.user_from_id(author_id).fm_flags of every author
  fpc,               \* position of every caller of get_fm_flags
  fauthor,           \* get_fm_flags: author_id
  fdict,             \* get_fm_flags: the dict display under construction
  fresult,           \* what get_fm_flags returned to the caller
  alt_monsters,      \* state.alt_monsters: a list of MonsterEvolution
  state_monster_id,  \* state.monster.monster_id
  evos_pc,           \* position of the caller of evos_embed_field
  evos_field,        \* the EmbedField evos_embed_field returned
  row_m,             \* the monster m the awakening rows are made for
  row_pc,            \* position of the caller of each awakening row
  normal_row,        \* what normal_awakenings_row(m) returned
  super_row,         \* what super_awakenings_row(m) returned
  view_state,        \* the IdViewState: query, monster, is_jp_buffed
  ims,               \* the dict passed to set_na_diff_invalid_message
  ims_before,        \* history: ims when the view state was made
  nadiff_pc,         \* position of the caller of each na diff method
  nadiff_message,    \* what get_na_diff_invalid_message returned
  nadiff_return      \* what set_na_diff_invalid_message returned

cogVars == <<is_ready, database, indexes, mon_finder, registered, nextGen, debug_ids>>
lockVars == <<fir_lock, fir3_lock>>
taskVars == <<pc, srv, graph, calls, short_wait, outcome, before, completed>>
queryVars == <<qpc, qstart>>
configVars == <<debug_mode, debug_mode_monsters>>
checkVars == <<ci_pc, graph_issues, index_issues, test_results, issues, ci_debug, report>>
flagVars == <<fm_flags_default, user_flags, fpc, fauthor, fdict, fresult>>
evosVars == <<alt_monsters, state_monster_id, evos_pc, evos_field>>
rowVars == <<row_m, row_pc, normal_row, super_row>>
nadiffVars == <<view_state, ims, ims_before, nadiff_pc, nadiff_message, nadiff_return>>
viewVars == <<evosVars, rowVars, nadiffVars>>
restVars == <<configVars, checkVars, flagVars, viewVars>>
envVars == <<wpc, restVars>>
vars == <<cogVars, lockVars, taskVars, queryVars, envVars>>

\* the state a query can observe
Visible == [db |-> database, idx |-> indexes]

\* Optional[List[...]]: None, or a list
None == [none |-> TRUE, list |-> <<>>]
Some(l) == [none |-> FALSE, list |-> l]

\* value of the history variables outside an attempt or a query
NoSnapshot == [db |-> 0, idx |-> [s \in ServerSet |-> 0]]

\* ------------------------------------------------------------ asyncio.Lock
NewLock == [locked |-> FALSE, waiters |-> <<>>]

\* Lock.locked()
Locked(lock) == lock.locked

\* variant: acquire() never looks at the state of the lock
CanAcquireAlways(lock) == TRUE

\* Lock.acquire() returns without suspending
CanAcquire(lock) == ~lock.locked /\ lock.waiters = <<>>

\* Lock.acquire(), the lock is taken at once
Acquire(lock) == [lock EXCEPT !.locked = TRUE]

\* Lock.acquire(), the caller is appended to the waiters and suspends
Enqueue(lock, p) == [lock EXCEPT !.waiters = Append(@, p)]

\* a suspended acquire() is resumed: first waiter, lock released
CanResume(lock, p) == ~lock.locked /\ lock.waiters # <<>> /\ Head(lock.waiters) = p

\* the resumed acquire() takes the lock
Resume(lock) == [locked |-> TRUE, waiters |-> Tail(lock.waiters)]

\* Lock.release()
Release(lock) == [lock EXCEPT !.locked = FALSE]

\* ----------------------------------------------------------------- __init__
\* register_global(..., debug_mode=False, debug_mode_monsters=[3260])
InitConfig ==
  /\ debug_mode = FALSE
  /\ debug_mode_monsters = <<3260>>

\* no check_index task has run
InitCheck ==
  /\ ci_pc = "idle"
  /\ graph_issues = <<>>
  /\ index_issues = [s \in ServerSet |-> <<>>]
  /\ test_results = <<>>
  /\ issues = <<>>
  /\ ci_debug = None
  /\ report = None

\* self.fm_flags_default = {'na_prio': True, 'server': DEFAULT_SERVER} and
\* register_user(..., fm_flags={}); no call of get_fm_flags yet
InitFlags ==
  /\ fm_flags_default = <<<<"na_prio", "True">>, <<"server", "DEFAULT_SERVER">>>>
  /\ user_flags = [a \in Authors |-> <<>>]
  /\ fpc = [c \in FlagCallers |-> "idle"]
  /\ fauthor = [c \in FlagCallers |-> 0]
  /\ fdict = [c \in FlagCallers |-> <<>>]
  /\ fresult = [c \in FlagCallers |-> <<>>]

\* the attributes __init__ sets, the tasks and the callers before their
\* first step
InitTasks ==
  /\ debug_ids = None
  /\ is_ready = FALSE
  /\ database = 0
  /\ indexes = [s \in ServerSet |-> 0]
  /\ mon_finder = FALSE
  /\ fir_lock = NewLock
  /\ fir3_lock = NewLock
  /\ registered = TRUE
  /\ nextGen = 0
  /\ pc = [p \in Reloaders |-> IF p = Periodic THEN "p_loop" ELSE "idle"]
  /\ srv = [p \in Reloaders |-> 0]
  /\ graph = [p \in Reloaders |-> 0]
  /\ calls = [p \in Reloaders |-> 0]
  /\ short_wait = FALSE
  /\ outcome = "none"
  /\ before = NoSnapshot
  /\ completed = 0
  /\ qpc = [q \in Queries |-> "idle"]
  /\ qstart = [q \in Queries |-> NoSnapshot]
  /\ wpc = [w \in Waiters |-> "idle"]

\* no EmbedField yet
NoField == [name |-> <<>>, links |-> <<>>, highlighted |-> 0]

\* the view of padinfo before any monster is shown
InitEvos ==
  /\ alt_monsters = <<>>
  /\ state_monster_id = 0
  /\ evos_pc = "idle"
  /\ evos_field = NoField

\* the callers of the rows of IdView
Rows == {"normal", "super"}

InitRows ==
  /\ row_m = [awakenings |-> <<>>, superawakening_count |-> 0]
  /\ row_pc = [r \in Rows |-> "idle"]
  /\ normal_row = None
  /\ super_row = None

\* the callers of the na diff methods of IdViewState
NaDiffMethods == {"get", "set"}

InitNaDiff ==
  /\ view_state = [query |-> "", monster |-> [on_na |-> TRUE, on_jp |-> TRUE],
                   is_jp_buffed |-> FALSE]
  /\ ims = <<>>
  /\ ims_before = <<>>
  /\ nadiff_pc = [c \in NaDiffMethods |-> "idle"]
  /\ nadiff_message = None
  /\ nadiff_return = FALSE

InitView ==
  /\ InitEvos
  /\ InitRows
  /\ InitNaDiff

\* the cog after __init__, its tasks and callers before their first step
InitCog ==
  /\ InitFlags
  /\ InitView
  /\ InitCheck
  /\ InitTasks

Init ==
  /\ InitConfig
  /\ InitCog

\* ------------------------------------------------------- reload_data_task
\* wait_time = 60 if short_wait else 60 * 60 * 4
WaitTime(sw) == IF sw THEN SHORT_WAIT ELSE LONG_WAIT

\* the wait_time reload_data_task sleeps for
wait_time == WaitTime(short_wait)

\* coroutine p leaves its attempt and continues at l: the locals of
\* create_index are dropped, and so is the history of a periodic attempt
Leave(p, l) ==
  /\ pc' = [pc EXCEPT ![p] = l]
  /\ srv' = [srv EXCEPT ![p] = 0]
  /\ graph' = [graph EXCEPT ![p] = 0]
  /\ calls' = [calls EXCEPT ![p] = 0]
  /\ before' = IF p = Periodic THEN NoSnapshot ELSE before

\* variant: the except clause also clears the ready flag
PeriodicExceptClears ==
  /\ Leave(Periodic, "p_sleep")
  /\ short_wait' = TRUE
  /\ outcome' = "raised"
  /\ is_ready' = FALSE

\* variant: the ready flag is set in a finally clause, so also after a failure
PeriodicExceptSets ==
  /\ Leave(Periodic, "p_sleep")
  /\ short_wait' = TRUE
  /\ outcome' = "raised"
  /\ is_ready' = TRUE

\* variant: the exception is logged and raised again, ending the task
PeriodicExceptPropagates ==
  /\ Leave(Periodic, "p_exit")
  /\ short_wait' = TRUE
  /\ outcome' = "raised"
  /\ UNCHANGED is_ready

\* except Exception: short_wait = True, then the sleep
PeriodicExcept ==
  /\ Leave(Periodic, "p_sleep")
  /\ short_wait' = TRUE
  /\ outcome' = "raised"
  /\ UNCHANGED is_ready

\* An exception leaves the body coroutine p runs, fl and gl being the locks
\* at that moment: 'async with' releases the lock of a command, the except
\* clause of reload_data_task catches it in the periodic task.
Unwind(p, fl, gl) ==
  /\ fir_lock' = IF p \in FirProcs THEN Release(fl) ELSE fl
  /\ fir3_lock' = IF p \in Fir3Procs THEN Release(gl) ELSE gl
  /\ IF p = Periodic
       THEN PeriodicExcept
       ELSE Leave(p, "done") /\ UNCHANGED <<short_wait, outcome, is_ready>>

\* variant: short_wait is initialised once, before the loop
PeriodicLoopSticky ==
  /\ pc[Periodic] = "p_loop"
  /\ registered
  /\ pc' = [pc EXCEPT ![Periodic] = "dl_fetch"]
  /\ outcome' = "none"
  /\ before' = Visible
  /\ UNCHANGED <<cogVars, lockVars, srv, graph, calls, short_wait, completed, queryVars, envVars>>

\* while self == self.bot.get_cog('DBCog'): short_wait = False, enter
\* StatusManager and download_and_refresh_nicknames up to its first await
PeriodicLoop ==
  /\ pc[Periodic] = "p_loop"
  /\ registered
  /\ pc' = [pc EXCEPT ![Periodic] = "dl_fetch"]
  /\ short_wait' = FALSE
  /\ outcome' = "none"
  /\ before' = Visible
  /\ UNCHANGED <<cogVars, lockVars, srv, graph, calls, completed, queryVars, envVars>>

\* the while condition is false: reload_data_task returns
PeriodicExit ==
  /\ pc[Periodic] = "p_loop"
  /\ ~registered
  /\ pc' = [pc EXCEPT ![Periodic] = "p_exit"]
  /\ UNCHANGED <<cogVars, lockVars, srv, graph, calls, short_wait, outcome, before, completed,
                 queryVars, envVars>>

\* variant: set() resumes one of the suspended callers only
WakeOneCaller(f) ==
  IF \E w \in Waiters : f[w] \in {"waiting", "v_waiting"}
    THEN LET w == CHOOSE x \in Waiters : f[x] \in {"waiting", "v_waiting"}
         IN  [f EXCEPT ![w] = IF f[w] = "waiting" THEN "woken" ELSE "v_woken"]
    ELSE f

\* Event.set() resumes every caller suspended in wait_until_ready(_verbose)
WakeCallers(f) ==
  [w \in Waiters |->
     IF f[w] = "waiting" THEN "woken"
     ELSE IF f[w] = "v_waiting" THEN "v_woken"
     ELSE f[w]]

\* Event.set() resumes every coroutine suspended in Event.wait()
WakeWaiters(f) ==
  [p \in Reloaders |->
     IF f[p] = "f_waitready" THEN "f_woken"
     ELSE IF f[p] = "g_waitready" THEN "g_woken"
     ELSE f[p]]

\* StatusManager exits, then self._is_ready.set() and the sleep
PeriodicReady ==
  /\ pc[Periodic] = "p_status"
  /\ is_ready' = TRUE
  /\ pc' = WakeWaiters([pc EXCEPT ![Periodic] = "p_sleep"])
  /\ outcome' = "ok"
  /\ wpc' = WakeCallers(wpc)
  /\ UNCHANGED <<database, indexes, mon_finder, registered, nextGen, debug_ids, lockVars,
                 srv, graph, calls, short_wait, before, completed, queryVars, restVars>>

\* StatusManager.__aexit__ raises: the except clause runs
PeriodicStatusFail ==
  /\ pc[Periodic] = "p_status"
  /\ PeriodicExcept
  /\ UNCHANGED <<database, indexes, mon_finder, registered, nextGen, debug_ids, lockVars,
                 completed, queryVars, envVars>>

\* asyncio.sleep(wait_time) returns
PeriodicWake ==
  /\ pc[Periodic] = "p_sleep"
  /\ pc' = [pc EXCEPT ![Periodic] = "p_loop"]
  /\ UNCHANGED <<cogVars, lockVars, srv, graph, calls, short_wait, outcome, before, completed,
                 queryVars, envVars>>

\* ------------------------------------------- download_and_refresh_nicknames
\* the copy or the download of the data file returns
FetchOk(p) ==
  /\ pc[p] = "dl_fetch"
  /\ pc' = [pc EXCEPT ![p] = "dl_debug"]
  /\ UNCHANGED <<cogVars, lockVars, srv, graph, calls, short_wait, outcome, before, completed,
                 queryVars, envVars>>

\* the copy or the download raises
FetchFail(p) ==
  /\ pc[p] = "dl_fetch"
  /\ Unwind(p, fir_lock, fir3_lock)
  /\ UNCHANGED <<database, indexes, mon_finder, registered, nextGen, debug_ids, completed,
                 queryVars, envVars>>

\* get_debug_monsters is called by p
Called(p) == [calls EXCEPT ![p] = @ + 1]

\* create_index is entered with self.database = db: the first iteration of
\* the loop reads self.database.graph and awaits MonsterIndex; a step from
\* dl_debug is one that called get_debug_monsters on its way
StartIndex(p, db, fl, gl) ==
  IF db = 0
    THEN Unwind(p, fl, gl)
    ELSE /\ pc' = [pc EXCEPT ![p] = "ci_build"]
         /\ srv' = [srv EXCEPT ![p] = 1]
         /\ graph' = [graph EXCEPT ![p] = db]
         /\ calls' = IF pc[p] = "dl_debug" THEN Called(p) ELSE calls
         /\ fir_lock' = fl
         /\ fir3_lock' = gl
         /\ UNCHANGED <<short_wait, outcome, is_ready, before>>

\* variant: the configured list is returned whatever debug_mode said
get_debug_monsters_always(enabled) == Some(debug_mode_monsters)

\* get_debug_monsters, enabled being what config.debug_mode() returned: the
\* configured list as config.debug_mode_monsters() returns it now, or None
get_debug_monsters(enabled) ==
  IF enabled THEN Some(debug_mode_monsters) ELSE None

\* get_debug_monsters: config.debug_mode() returned True, and
\* config.debug_mode_monsters() is awaited
ReadDebugMode(p) ==
  /\ pc[p] = "dl_debug"
  /\ debug_mode
  /\ pc' = [pc EXCEPT ![p] = "dl_ids"]
  /\ calls' = Called(p)
  /\ UNCHANGED <<cogVars, lockVars, srv, graph, short_wait, outcome, before, completed,
                 queryVars, envVars>>

\* get_debug_monsters returns (config.debug_mode() returned False, or
\* config.debug_mode_monsters() returned), self.database = load_database(...),
\* then create_index up to its first await; load_database raises once MaxGen
\* database objects exist
LoadOk(p) ==
  /\ \/ pc[p] = "dl_debug" /\ ~debug_mode
     \/ pc[p] = "dl_ids"
  /\ nextGen < MaxGen
  /\ nextGen' = nextGen + 1
  /\ database' = nextGen + 1
  /\ debug_ids' = get_debug_monsters(pc[p] = "dl_ids")
  /\ StartIndex(p, nextGen + 1, fir_lock, fir3_lock)
  /\ UNCHANGED <<indexes, mon_finder, registered, completed, queryVars, envVars>>

\* get_debug_monsters or load_database raises
LoadFail(p) ==
  /\ pc[p] \in {"dl_debug", "dl_ids"}
  /\ Unwind(p, fir_lock, fir3_lock)
  /\ UNCHANGED <<database, indexes, mon_finder, registered, nextGen, debug_ids, completed,
                 queryVars, envVars>>

\* ------------------------------------------------------------- create_index
\* MonsterIndex returns for a server that is not the last: the index is
\* stored and the next iteration reads self.database.graph
BuildNext(p) ==
  /\ pc[p] = "ci_build"
  /\ srv[p] < Len(SERVERS)
  /\ indexes' = [indexes EXCEPT ![SERVERS[srv[p]]] = graph[p]]
  /\ IF database = 0
       THEN Unwind(p, fir_lock, fir3_lock)
       ELSE /\ srv' = [srv EXCEPT ![p] = @ + 1]
            /\ graph' = [graph EXCEPT ![p] = database]
            /\ UNCHANGED <<pc, calls, before, lockVars, short_wait, outcome, is_ready>>
  /\ UNCHANGED <<database, mon_finder, registered, nextGen, debug_ids, completed, queryVars, envVars>>

\* where the caller of create_index continues
AfterIndex(p) ==
  IF p = Periodic THEN "p_status" ELSE IF p \in FirProcs THEN "f_finish" ELSE "g_finish"

\* asyncio.create_task(self.check_index()): the model follows one
\* check_index task at a time, the new one when none is running
SpawnCheck ==
  IF ci_pc \in {"idle", "done"}
    THEN /\ ci_pc' = "spawned"
         /\ graph_issues' = <<>>
         /\ index_issues' = [s \in ServerSet |-> <<>>]
         /\ test_results' = <<>>
         /\ issues' = <<>>
         /\ ci_debug' = None
         /\ report' = None
    ELSE UNCHANGED checkVars

\* MonsterIndex returns for the last server: the index is stored,
\* mon_finder is replaced, the check_index task is created and create_index
\* returns to its caller
BuildLast(p) ==
  /\ pc[p] = "ci_build"
  /\ srv[p] = Len(SERVERS)
  /\ indexes' = [indexes EXCEPT ![SERVERS[srv[p]]] = graph[p]]
  /\ mon_finder' = TRUE
  /\ Leave(p, AfterIndex(p))
  /\ completed' = IF p \in FullReloaders THEN completed + 1 ELSE completed
  /\ SpawnCheck
  /\ UNCHANGED <<is_ready, database, registered, nextGen, debug_ids, lockVars, short_wait, outcome,
                 queryVars, wpc, configVars, flagVars, viewVars>>

\* MonsterIndex raises
BuildFail(p) ==
  /\ pc[p] = "ci_build"
  /\ Unwind(p, fir_lock, fir3_lock)
  /\ UNCHANGED <<database, indexes, mon_finder, registered, nextGen, debug_ids, completed,
                 queryVars, envVars>>

\* -------------------------------------------------------------- check_index
\* the lists of issues a graph, an index or run_tests can hold: n lines of
\* one source, each line naming its source and its place
Lines(src, n) == [i \in 1..n |-> <<src, i>>]

IssueCounts == {0, 1, MaxIssues - 2, MaxIssues}
FewIssueCounts == {0, 1}

\* issues.extend(index.issues) for every index of self.indexes.values(), a
\* dict filled in the order of SERVERS
RECURSIVE ExtendAll(_, _, _)
ExtendAll(l, idx, i) ==
  IF i > Len(SERVERS) THEN l ELSE ExtendAll(l \o idx[SERVERS[i]], idx, i + 1)

\* issues[:100]
Cut(l) == SubSeq(l, 1, IF Len(l) < REPORT_CAP THEN Len(l) ELSE REPORT_CAP)

\* the task starts: the issues of self.database.graph and of every index
\* are collected, run_tests is awaited; AttributeError ends the task when
\* self.database is None
CheckCollect ==
  /\ ci_pc = "spawned"
  /\ IF database = 0
       THEN /\ ci_pc' = "done"
            /\ UNCHANGED <<graph_issues, index_issues, issues, ci_debug>>
       ELSE /\ ci_pc' = "tests"
            /\ \E n \in IssueCounts : graph_issues' = Lines("graph", n)
            /\ \E f \in [ServerSet -> FewIssueCounts] :
                 index_issues' = [s \in ServerSet |-> Lines(s, f[s])]
            /\ issues' = ExtendAll(graph_issues', index_issues', 1)
            /\ ci_debug' = debug_ids
  /\ UNCHANGED <<test_results, report>>
  /\ UNCHANGED <<cogVars, lockVars, taskVars, queryVars, wpc, configVars, flagVars, viewVars>>

\* run_tests returns: its results are appended; with issues, and with
\* self.database.graph.debug_monster_ids None, the first 100 are sent to the
\* log channel or else to the owners; AttributeError ends the task when
\* there are issues and self.database is None
CheckReport ==
  /\ ci_pc = "tests"
  /\ \E n \in FewIssueCounts : test_results' = Lines("tests", n)
  /\ issues' = issues \o test_results'
  /\ report' = IF issues' # <<>> /\ database # 0 /\ debug_ids.none
                 THEN Some(Cut(issues'))
                 ELSE None
  /\ ci_pc' = "done"
  /\ UNCHANGED <<graph_issues, index_issues, ci_debug>>
  /\ UNCHANGED <<cogVars, lockVars, taskVars, queryVars, wpc, configVars, flagVars, viewVars>>

\* --------------------------------------------------------------- cog_unload
cog_unload ==
  /\ registered
  /\ database' = 0
  /\ is_ready' = FALSE
  /\ registered' = FALSE
  /\ UNCHANGED <<indexes, mon_finder, nextGen, debug_ids, lockVars, taskVars, queryVars, envVars>>

\* ------------------------------------------------------ debugmode commands
\* monster ids the debugmode commands are called with
MonsterIds == {3260, 1}
MonsterArgs == {<<m>> : m \in MonsterIds} \cup {<<m, n>> : m, n \in MonsterIds}

\* variant: every monster is appended, in the list or not
RECURSIVE AppendAll(_, _)
AppendAll(l, ms) ==
  IF ms = <<>> THEN l ELSE AppendAll(Append(l, Head(ms)), Tail(ms))

\* for monster in monsters: if monster not in ts_monsters: append
RECURSIVE AddAll(_, _)
AddAll(l, ms) ==
  IF ms = <<>> THEN l
  ELSE AddAll(IF \E i \in 1..Len(l) : l[i] = Head(ms) THEN l ELSE Append(l, Head(ms)),
              Tail(ms))

\* list.remove(m): the first occurrence of m is removed
Remove(l, m) ==
  LET i == CHOOSE j \in 1..Len(l) : l[j] = m /\ \A k \in 1..(j - 1) : l[k] # m
  IN  SubSeq(l, 1, i - 1) \o SubSeq(l, i + 1, Len(l))

\* for monster in monsters: if monster in ts_monsters: remove
RECURSIVE RemoveAll(_, _)
RemoveAll(l, ms) ==
  IF ms = <<>> THEN l
  ELSE RemoveAll(IF \E i \in 1..Len(l) : l[i] = Head(ms) THEN Remove(l, Head(ms)) ELSE l,
                 Tail(ms))

\* debug_enable: config.debug_mode.set(enabled), then the confirmation
\* message is awaited
debug_enable(p, enabled) ==
  /\ pc[p] = "idle"
  /\ registered
  /\ debug_mode' = enabled
  /\ pc' = [pc EXCEPT ![p] = "d_msg"]
  /\ UNCHANGED <<cogVars, lockVars, srv, graph, calls, short_wait, outcome, before, completed,
                 queryVars, wpc, debug_mode_monsters, checkVars, flagVars, viewVars>>

\* debug_monsters_add: the stored list is extended, config.debug_mode() is
\* awaited
debug_monsters_add(p, monsters) ==
  /\ pc[p] = "idle"
  /\ registered
  /\ debug_mode_monsters' = AddAll(debug_mode_monsters, monsters)
  /\ pc' = [pc EXCEPT ![p] = "d_mode"]
  /\ UNCHANGED <<cogVars, lockVars, srv, graph, calls, short_wait, outcome, before, completed,
                 queryVars, wpc, debug_mode, checkVars, flagVars, viewVars>>

\* debug_monsters_rm: the stored list is reduced, config.debug_mode() is
\* awaited
debug_monsters_rm(p, monsters) ==
  /\ pc[p] = "idle"
  /\ registered
  /\ debug_mode_monsters' = RemoveAll(debug_mode_monsters, monsters)
  /\ pc' = [pc EXCEPT ![p] = "d_mode"]
  /\ UNCHANGED <<cogVars, lockVars, srv, graph, calls, short_wait, outcome, before, completed,
                 queryVars, wpc, debug_mode, checkVars, flagVars, viewVars>>

\* debug_monsters_add, debug_monsters_rm: debug mode is off, ctx.tick()
DebugTick(p) ==
  /\ pc[p] = "d_mode"
  /\ ~debug_mode
  /\ pc' = [pc EXCEPT ![p] = "done"]
  /\ UNCHANGED <<cogVars, lockVars, srv, graph, calls, short_wait, outcome, before, completed,
                 queryVars, envVars>>

\* the command has returned: p stands for the next invocation of a command
NextInvocation(p) ==
  /\ pc[p] = "done"
  /\ registered
  /\ pc' = [pc EXCEPT ![p] = "idle"]
  /\ UNCHANGED <<cogVars, lockVars, srv, graph, calls, short_wait, outcome, before, completed,
                 queryVars, envVars>>

\* forceindexreload is entered by p: invoked as a command, called by
\* debug_enable after its confirmation, or called by debug_monsters_add and
\* debug_monsters_rm when config.debug_mode() returns True
Invoked(p) ==
  \/ pc[p] \in {"idle", "d_msg"}
  \/ pc[p] = "d_mode" /\ debug_mode

\* --------------------------------------------------------- forceindexreload
\* if self.fir_lock.locked(): send "Index is already being reloaded.", return
FirReject(p) ==
  /\ Invoked(p)
  /\ registered
  /\ Locked(fir_lock)
  /\ pc' = [pc EXCEPT ![p] = "done"]
  /\ UNCHANGED <<cogVars, lockVars, srv, graph, calls, short_wait, outcome, before, completed,
                 queryVars, envVars>>

\* the lock is not held: 'async with ctx.typing(), ...' awaits the typing
\* context before it reaches the lock
FirPass(p) ==
  /\ Invoked(p)
  /\ registered
  /\ ~Locked(fir_lock)
  /\ pc' = [pc EXCEPT ![p] = "f_typing"]
  /\ UNCHANGED <<cogVars, lockVars, srv, graph, calls, short_wait, outcome, before, completed,
                 queryVars, envVars>>

\* typing entered, fir_lock acquired at once; await ctx.send('Starting reload...')
FirAcquire(p) ==
  /\ pc[p] = "f_typing"
  /\ CanAcquire(fir_lock)
  /\ fir_lock' = Acquire(fir_lock)
  /\ pc' = [pc EXCEPT ![p] = "f_start"]
  /\ UNCHANGED <<cogVars, fir3_lock, srv, graph, calls, short_wait, outcome, before, completed,
                 queryVars, envVars>>

\* typing entered, fir_lock is held: the coroutine suspends in acquire()
FirBlock(p) ==
  /\ pc[p] = "f_typing"
  /\ ~CanAcquire(fir_lock)
  /\ fir_lock' = Enqueue(fir_lock, p)
  /\ pc' = [pc EXCEPT ![p] = "f_lockwait"]
  /\ UNCHANGED <<cogVars, fir3_lock, srv, graph, calls, short_wait, outcome, before, completed,
                 queryVars, envVars>>

\* the suspended acquire() of fir_lock returns
FirResume(p) ==
  /\ pc[p] = "f_lockwait"
  /\ CanResume(fir_lock, p)
  /\ fir_lock' = Resume(fir_lock)
  /\ pc' = [pc EXCEPT ![p] = "f_start"]
  /\ UNCHANGED <<cogVars, fir3_lock, srv, graph, calls, short_wait, outcome, before, completed,
                 queryVars, envVars>>

\* download_and_refresh_nicknames is entered by a command
EnterDownload(p) ==
  /\ pc' = [pc EXCEPT ![p] = "dl_fetch"]
  /\ UNCHANGED before

\* the send returned; wait_until_ready returns at once, the flag being set
FirStartReady(p) ==
  /\ pc[p] = "f_start"
  /\ is_ready
  /\ EnterDownload(p)
  /\ UNCHANGED <<cogVars, lockVars, srv, graph, calls, short_wait, outcome, completed, queryVars, envVars>>

\* variant: the download is entered without waiting for the flag
FirStartNoWait(p) ==
  /\ pc[p] = "f_start"
  /\ ~is_ready
  /\ EnterDownload(p)
  /\ UNCHANGED <<cogVars, lockVars, srv, graph, calls, short_wait, outcome, completed,
                 queryVars, envVars>>

\* the send returned; wait_until_ready suspends, the flag being clear
FirStartWait(p) ==
  /\ pc[p] = "f_start"
  /\ ~is_ready
  /\ pc' = [pc EXCEPT ![p] = "f_waitready"]
  /\ UNCHANGED <<cogVars, lockVars, srv, graph, calls, short_wait, outcome, before, completed,
                 queryVars, envVars>>

\* wait_until_ready returns after the flag was set
FirWoken(p) ==
  /\ pc[p] = "f_woken"
  /\ EnterDownload(p)
  /\ UNCHANGED <<cogVars, lockVars, srv, graph, calls, short_wait, outcome, completed, queryVars, envVars>>

\* 'Reload finished' is sent, 'async with' releases fir_lock
FirFinish(p) ==
  /\ pc[p] = "f_finish"
  /\ fir_lock' = Release(fir_lock)
  /\ pc' = [pc EXCEPT ![p] = "done"]
  /\ UNCHANGED <<cogVars, fir3_lock, srv, graph, calls, short_wait, outcome, before, completed,
                 queryVars, envVars>>

\* -------------------------------------------------------- forceindexreload3
\* variant: forceindexreload3 is rejected while either lock is held
Fir3RejectAnyGate(p) ==
  /\ pc[p] = "idle"
  /\ registered
  /\ Locked(fir_lock) \/ Locked(fir3_lock)
  /\ pc' = [pc EXCEPT ![p] = "done"]
  /\ UNCHANGED <<cogVars, lockVars, srv, graph, calls, short_wait, outcome, before, completed,
                 queryVars, envVars>>

\* if self.fir3_lock.locked(): send "Index is already being reloaded.", return
Fir3Reject(p) ==
  /\ pc[p] = "idle"
  /\ registered
  /\ Locked(fir3_lock)
  /\ pc' = [pc EXCEPT ![p] = "done"]
  /\ UNCHANGED <<cogVars, lockVars, srv, graph, calls, short_wait, outcome, before, completed,
                 queryVars, envVars>>

\* the lock is not held: the typing context is awaited
Fir3Pass(p) ==
  /\ pc[p] = "idle"
  /\ registered
  /\ ~Locked(fir3_lock)
  /\ pc' = [pc EXCEPT ![p] = "g_typing"]
  /\ UNCHANGED <<cogVars, lockVars, srv, graph, calls, short_wait, outcome, before, completed,
                 queryVars, envVars>>

\* the body of forceindexreload3 once fir3_lock, now gl, is acquired:
\* wait_until_ready, then create_index up to its first await
Fir3Body(p, gl) ==
  IF is_ready
    THEN StartIndex(p, database, fir_lock, gl)
    ELSE /\ pc' = [pc EXCEPT ![p] = "g_waitready"]
         /\ fir3_lock' = gl
         /\ UNCHANGED <<fir_lock, srv, graph, calls, short_wait, outcome, is_ready, before>>

\* typing entered, fir3_lock acquired at once
Fir3Acquire(p) ==
  /\ pc[p] = "g_typing"
  /\ CanAcquire(fir3_lock)
  /\ Fir3Body(p, Acquire(fir3_lock))
  /\ UNCHANGED <<database, indexes, mon_finder, registered, nextGen, debug_ids, completed,
                 queryVars, envVars>>

\* typing entered, fir3_lock is held: the coroutine suspends in acquire()
Fir3Block(p) ==
  /\ pc[p] = "g_typing"
  /\ ~CanAcquire(fir3_lock)
  /\ fir3_lock' = Enqueue(fir3_lock, p)
  /\ pc' = [pc EXCEPT ![p] = "g_lockwait"]
  /\ UNCHANGED <<cogVars, fir_lock, srv, graph, calls, short_wait, outcome, before, completed,
                 queryVars, envVars>>

\* the suspended acquire() of fir3_lock returns
Fir3Resume(p) ==
  /\ pc[p] = "g_lockwait"
  /\ CanResume(fir3_lock, p)
  /\ Fir3Body(p, Resume(fir3_lock))
  /\ UNCHANGED <<database, indexes, mon_finder, registered, nextGen, debug_ids, completed,
                 queryVars, envVars>>

\* wait_until_ready returns after the flag was set; create_index is entered
Fir3Woken(p) ==
  /\ pc[p] = "g_woken"
  /\ StartIndex(p, database, fir_lock, fir3_lock)
  /\ UNCHANGED <<database, indexes, mon_finder, registered, nextGen, debug_ids, completed,
                 queryVars, envVars>>

\* 'Reload finished' is sent, 'async with' releases fir3_lock
Fir3Finish(p) ==
  /\ pc[p] = "g_finish"
  /\ fir3_lock' = Release(fir3_lock)
  /\ pc' = [pc EXCEPT ![p] = "done"]
  /\ UNCHANGED <<cogVars, fir_lock, srv, graph, calls, short_wait, outcome, before, completed,
                 queryVars, envVars>>

\* ------------------------------------------------------------- get_fm_flags
\* a dict is the sequence of its items <<key, value>>, in insertion order
Has(d, k) == \E i \in 1..Len(d) : d[i][1] = k

\* d[k]
Get(d, k) == d[CHOOSE i \in 1..Len(d) : d[i][1] = k][2]

\* variant: a key the dict holds keeps its value
PutAbsent(d, k, v) == IF Has(d, k) THEN d ELSE Append(d, <<k, v>>)

\* d[k] = v: the value of a key the dict holds is replaced in place, a new
\* key is appended
Put(d, k, v) ==
  IF Has(d, k)
    THEN [i \in 1..Len(d) |-> IF d[i][1] = k THEN <<k, v>> ELSE d[i]]
    ELSE Append(d, <<k, v>>)

\* the ** of a dict display: every item of u is stored into d, in order
RECURSIVE Unpack(_, _)
Unpack(d, u) ==
  IF u = <<>> THEN d ELSE Unpack(Put(d, Head(u)[1], Head(u)[2]), Tail(u))

\* what a user can have stored as fm_flags
StoredFlags ==
  { <<>>,
    <<<<"na_prio", "False">>>>,
    <<<<"server", "NA">>>>,
    <<<<"server", "NA">>, <<"na_prio", "False">>>>,
    <<<<"na_prio", "True">>, <<"other", "x">>>> }

\* another cog stores fm_flags for an author
SetUserFlags(a, d) ==
  /\ user_flags[a] # d
  /\ user_flags' = [user_flags EXCEPT ![a] = d]
  /\ UNCHANGED <<fm_flags_default, fpc, fauthor, fdict, fresult>>
  /\ UNCHANGED <<cogVars, lockVars, taskVars, queryVars, wpc, configVars, checkVars, viewVars>>

\* get_fm_flags(author_id) is called: {**self.fm_flags_default, ... is
\* evaluated, then the stored fm_flags of the author are awaited
GetFlagsCall(c, a) ==
  /\ fpc[c] \in {"idle", "returned"}
  /\ fpc' = [fpc EXCEPT ![c] = "reading"]
  /\ fauthor' = [fauthor EXCEPT ![c] = a]
  /\ fdict' = [fdict EXCEPT ![c] = Unpack(<<>>, fm_flags_default)]
  /\ fresult' = [fresult EXCEPT ![c] = <<>>]
  /\ UNCHANGED <<fm_flags_default, user_flags>>
  /\ UNCHANGED <<cogVars, lockVars, taskVars, queryVars, wpc, configVars, checkVars, viewVars>>

\* the stored fm_flags are returned and unpacked into the dict, which
\* get_fm_flags returns
GetFlagsReturn(c) ==
  /\ fpc[c] = "reading"
  /\ fpc' = [fpc EXCEPT ![c] = "returned"]
  /\ fresult' = [fresult EXCEPT ![c] = Unpack(fdict[c], user_flags[fauthor[c]])]
  /\ fdict' = [fdict EXCEPT ![c] = <<>>]
  /\ UNCHANGED <<fm_flags_default, user_flags, fauthor>>
  /\ UNCHANGED <<cogVars, lockVars, taskVars, queryVars, wpc, configVars, checkVars, viewVars>>

\* --------------------------------------------- find_monster / find_monsters
\* the call: get_fm_flags is awaited before FindMonster is constructed
QueryStart(q) ==
  /\ qpc[q] = "idle"
  /\ registered
  /\ qpc' = [qpc EXCEPT ![q] = "q_flags"]
  /\ qstart' = [qstart EXCEPT ![q] = Visible]
  /\ UNCHANGED <<cogVars, lockVars, taskVars, envVars>>

\* variant: the query resolves under fir_lock and waits while it is held
QueryResolveGated(q) ==
  /\ qpc[q] = "q_flags"
  /\ ~Locked(fir_lock)
  /\ qpc' = [qpc EXCEPT ![q] = "q_done"]
  /\ qstart' = [qstart EXCEPT ![q] = NoSnapshot]
  /\ UNCHANGED <<cogVars, lockVars, taskVars, envVars>>

\* get_fm_flags returned: FindMonster(self, flags) resolves through the cog,
\* against the database and the indexes the cog holds now
QueryResolve(q) ==
  /\ qpc[q] = "q_flags"
  /\ qpc' = [qpc EXCEPT ![q] = "q_done"]
  /\ qstart' = [qstart EXCEPT ![q] = NoSnapshot]
  /\ UNCHANGED <<cogVars, lockVars, taskVars, envVars>>

\* ------------------------------- wait_until_ready, wait_until_ready_verbose
\* wait_until_ready is called: Event.wait() returns at once when the flag
\* is set and suspends the caller otherwise
WaitCall(w) ==
  /\ wpc[w] = "idle"
  /\ registered
  /\ wpc' = [wpc EXCEPT ![w] = IF is_ready THEN "returned" ELSE "waiting"]
  /\ UNCHANGED <<cogVars, lockVars, taskVars, queryVars, restVars>>

\* the caller resumed by set() returns from wait_until_ready
WaitReturn(w) ==
  /\ wpc[w] = "woken"
  /\ wpc' = [wpc EXCEPT ![w] = "returned"]
  /\ UNCHANGED <<cogVars, lockVars, taskVars, queryVars, restVars>>

\* wait_until_ready_verbose is called: return if the flag is set, else
\* send "Index is still loading. Please wait..."
VerboseCall(w) ==
  /\ wpc[w] = "idle"
  /\ registered
  /\ wpc' = [wpc EXCEPT ![w] = IF is_ready THEN "returned" ELSE "v_send"]
  /\ UNCHANGED <<cogVars, lockVars, taskVars, queryVars, restVars>>

\* the message is sent; Event.wait() returns at once when the flag was set
\* meanwhile, and msg.delete() is awaited, else the caller is suspended
VerboseWait(w) ==
  /\ wpc[w] = "v_send"
  /\ wpc' = [wpc EXCEPT ![w] = IF is_ready THEN "v_delete" ELSE "v_waiting"]
  /\ UNCHANGED <<cogVars, lockVars, taskVars, queryVars, restVars>>

\* the caller resumed by set() awaits msg.delete()
VerboseWoken(w) ==
  /\ wpc[w] = "v_woken"
  /\ wpc' = [wpc EXCEPT ![w] = "v_delete"]
  /\ UNCHANGED <<cogVars, lockVars, taskVars, queryVars, restVars>>

\* msg.delete() returns or raises discord.Forbidden: the call returns
VerboseReturn(w) ==
  /\ wpc[w] = "v_delete"
  /\ wpc' = [wpc EXCEPT ![w] = "returned"]
  /\ UNCHANGED <<cogVars, lockVars, taskVars, queryVars, restVars>>

\* ------------------------------------------------ alt_fmt, evos_embed_field
\* the values of MonsterEvolution.evolution: None, or an edge
NoEvolution == [none |-> TRUE, reversible |-> FALSE]
Evolution(r) == [none |-> FALSE, reversible |-> r]

\* a MonsterEvolution whose monster has monster_id and monster_no_na n
MonsterEvolution(n, equip, evo) ==
  [monster |-> [monster_id |-> n, monster_no_na |-> n, is_equip |-> equip],
   evolution |-> evo]

\* the lists of alt monsters of n monsters, the i-th with monster_id i
AltLists(n) ==
  {[i \in 1..n |-> MonsterEvolution(i, e[i], v[i])] :
     e \in [1..n -> BOOLEAN],
     v \in [1..n -> {NoEvolution, Evolution(TRUE), Evolution(FALSE)}]}

\* the format strings of alt_fmt, as the text before and after {}:
\* upper corner brackets for equip, none, lower corner brackets
EquipFmt == <<"upper-left", "upper-right">>
PlainFmt == <<"", "">>
IrreversibleFmt == <<"lower-left", "lower-right">>

\* fmt.format(x)
Format(fmt, x) == <<fmt[1], x, fmt[2]>>

\* variant: the evolution edge is tested before is_equip
alt_fmt_edge_first(monsterevo) ==
  LET fmt == IF monsterevo.evolution.none \/ monsterevo.evolution.reversible
               THEN (IF monsterevo.monster.is_equip THEN EquipFmt ELSE PlainFmt)
               ELSE IrreversibleFmt
  IN  Format(fmt, monsterevo.monster.monster_no_na)

\* alt_fmt(monsterevo, state)
alt_fmt(monsterevo) ==
  LET fmt == IF monsterevo.monster.is_equip THEN EquipFmt
             ELSE IF monsterevo.evolution.none \/ monsterevo.evolution.reversible
               THEN PlainFmt
               ELSE IrreversibleFmt
  IN  Format(fmt, monsterevo.monster.monster_no_na)

\* legend_parts of evos_embed_field
LegendParts(alts) ==
  (IF \E i \in 1..Len(alts) : ~alts[i].evolution.none /\ ~alts[i].evolution.reversible
     THEN <<"Irreversible">> ELSE <<>>)
  \o (IF \E i \in 1..Len(alts) : alts[i].monster.is_equip
        THEN <<"Equip">> ELSE <<>>)

\* field_text + help_text
FieldName(parts) ==
  <<"**Evos**">> \o (IF parts # <<>> THEN <<"Help">> \o parts ELSE <<>>)

\* next(i for i, me in enumerate(alts) if id == me.monster.monster_id),
\* counted from 1
Highlighted(alts, id) ==
  CHOOSE i \in 1..Len(alts) :
    /\ alts[i].monster.monster_id = id
    /\ \A j \in 1..(i - 1) : alts[j].monster.monster_id # id

\* evos_embed_field(state)
evos_embed_field ==
  /\ evos_pc = "idle"
  /\ evos_pc' = "done"
  /\ evos_field' =
       [name |-> FieldName(LegendParts(alt_monsters)),
        links |-> [i \in 1..Len(alt_monsters) |-> alt_fmt(alt_monsters[i])],
        highlighted |-> Highlighted(alt_monsters, state_monster_id)]
  /\ UNCHANGED <<alt_monsters, state_monster_id>>
  /\ UNCHANGED <<cogVars, lockVars, taskVars, queryVars, wpc, configVars, checkVars, flagVars>>
  /\ UNCHANGED <<rowVars, nadiffVars>>

\* ----------------------------------------------------- the awakening rows
\* awoken_skill_id of the awakenings of the monsters
AwokenSkillIds == {27, 43}

Awakening(id) == [awoken_skill_id |-> id]

\* the monsters m: an ordered list of awakenings whose last
\* superawakening_count entries are the super awakenings
RowMonsters ==
  UNION { { [awakenings |-> [i \in 1..n |-> Awakening(f[i])], superawakening_count |-> sa] :
              f \in [1..n -> AwokenSkillIds], sa \in 0..n } :
          n \in 0..MaxAwakenings }

\* the position a slice bound k takes in a list of length n: a negative
\* bound counts from the end, and the bound is clamped to 0..n
SliceIndex(k, n) ==
  IF k < 0 THEN (IF k + n < 0 THEN 0 ELSE k + n)
           ELSE (IF k > n THEN n ELSE k)

\* l[:k]
SliceTo(l, k) == SubSeq(l, 1, SliceIndex(k, Len(l)))

\* l[k:]
SliceFrom(l, k) == SubSeq(l, SliceIndex(k, Len(l)) + 1, Len(l))

\* get_emoji(name)
get_emoji(name) == <<"emoji", name>>

\* _get_awakening_text(awakening): the emoji of the awoken skill
get_awakening_text(awakening) == <<"awakening_emoji", awakening.awoken_skill_id>>

Text(e) == [text |-> e]

\* Box(*items, delimiter=' ')
Box(items) == Some(items)

\* [Text(_get_awakening_text(a)) for a in l]
Texts(l) == [i \in 1..Len(l) |-> Text(get_awakening_text(l[i]))]

\* variant: the super awakenings are taken to be first in the list
normal_awakenings_prefix(m) == m.superawakening_count

\* normal_awakenings = len(m.awakenings) - m.superawakening_count
normal_awakenings(m) == Len(m.awakenings) - m.superawakening_count

\* IdView.normal_awakenings_row(m)
normal_awakenings_row(m) ==
  Box(Texts(SliceTo(m.awakenings, normal_awakenings(m))))

\* IdView.super_awakenings_row(m)
super_awakenings_row(m) ==
  LET super_awakenings_emojis == Texts(SliceFrom(m.awakenings, normal_awakenings(m)))
  IN  IF Len(super_awakenings_emojis) > 0
        THEN Box(<<Text(get_emoji("sa_questionmark"))>> \o super_awakenings_emojis)
        ELSE None

\* a caller gets the row of the normal awakenings of m
NormalRow ==
  /\ row_pc["normal"] = "idle"
  /\ row_pc' = [row_pc EXCEPT !["normal"] = "done"]
  /\ normal_row' = normal_awakenings_row(row_m)
  /\ UNCHANGED <<row_m, super_row>>
  /\ UNCHANGED <<cogVars, lockVars, taskVars, queryVars, wpc, configVars, checkVars, flagVars>>
  /\ UNCHANGED <<evosVars, nadiffVars>>

\* a caller gets the row of the super awakenings of m
SuperRow ==
  /\ row_pc["super"] = "idle"
  /\ row_pc' = [row_pc EXCEPT !["super"] = "done"]
  /\ super_row' = super_awakenings_row(row_m)
  /\ UNCHANGED <<row_m, normal_row>>
  /\ UNCHANGED <<cogVars, lockVars, taskVars, queryVars, wpc, configVars, checkVars, flagVars>>
  /\ UNCHANGED <<evosVars, nadiffVars>>

\* ---------------------------------------------------- the na diff message
nadiff_na_only_text == ", which is only in NA"
nadiff_jp_only_text == ", which is only in JP"
nadiff_identical_text == ", which is the same in NA & JP"

\* the queries of the view states
ViewQueries == {"q1", "q2"}

\* the view states: the query, the regions of the monster, is_jp_buffed
ViewStates ==
  [query : ViewQueries, monster : [on_na : BOOLEAN, on_jp : BOOLEAN],
   is_jp_buffed : BOOLEAN]

\* invalid_monster_text(query, monster, append_text, link=True): a string
\* made of the query and the text
invalid_monster_text(query, monster, append_text) == <<query, append_text>>

\* the dicts ims a caller passes: with or without a message
ImsDicts ==
  { <<>>,
    <<<<"message", <<"q0", "old">>>>>>,
    <<<<"menu_type", <<"IdMenu">>>>, <<"message", <<"q0", "old">>>>>> }

\* variant: is_jp_buffed is tested before the regions
get_na_diff_invalid_message_buffed_first(self) ==
  LET monster == self.monster
  IN  IF ~self.is_jp_buffed
        THEN Some(invalid_monster_text(self.query, monster, nadiff_identical_text))
      ELSE IF monster.on_na /\ ~monster.on_jp
        THEN Some(invalid_monster_text(self.query, monster, nadiff_na_only_text))
      ELSE IF monster.on_jp /\ ~monster.on_na
        THEN Some(invalid_monster_text(self.query, monster, nadiff_jp_only_text))
      ELSE None

\* IdViewState.get_na_diff_invalid_message(self)
get_na_diff_invalid_message(self) ==
  LET monster == self.monster
  IN  IF monster.on_na /\ ~monster.on_jp
        THEN Some(invalid_monster_text(self.query, monster, nadiff_na_only_text))
      ELSE IF monster.on_jp /\ ~monster.on_na
        THEN Some(invalid_monster_text(self.query, monster, nadiff_jp_only_text))
      ELSE IF ~self.is_jp_buffed
        THEN Some(invalid_monster_text(self.query, monster, nadiff_identical_text))
      ELSE None

\* IdViewState.set_na_diff_invalid_message(self, ims): the dict after the
\* call and the value returned
set_na_diff_invalid_message(self, d) ==
  LET message == get_na_diff_invalid_message(self)
  IN  IF ~message.none
        THEN [ims |-> Put(d, "message", message.list), return |-> TRUE]
        ELSE [ims |-> d, return |-> FALSE]

\* a caller gets the message of the view state
GetNaDiff ==
  /\ nadiff_pc["get"] = "idle"
  /\ nadiff_pc' = [nadiff_pc EXCEPT !["get"] = "done"]
  /\ nadiff_message' = get_na_diff_invalid_message(view_state)
  /\ UNCHANGED <<view_state, ims, ims_before, nadiff_return>>
  /\ UNCHANGED <<cogVars, lockVars, taskVars, queryVars, wpc, configVars, checkVars, flagVars>>
  /\ UNCHANGED <<evosVars, rowVars>>

\* a caller has the message of the view state set in its dict
SetNaDiff ==
  /\ nadiff_pc["set"] = "idle"
  /\ nadiff_pc' = [nadiff_pc EXCEPT !["set"] = "done"]
  /\ ims' = set_na_diff_invalid_message(view_state, ims).ims
  /\ nadiff_return' = set_na_diff_invalid_message(view_state, ims).return
  /\ UNCHANGED <<view_state, ims_before, nadiff_message>>
  /\ UNCHANGED <<cogVars, lockVars, taskVars, queryVars, wpc, configVars, checkVars, flagVars>>
  /\ UNCHANGED <<evosVars, rowVars>>

\* ------------------------------------------------------------ specification
\* Spec: the periodic task, one invocation of each command, a query and
\* cog_unload, in any interleaving.  A single invocation finds its lock free.
SoloFir == {"f1"}
SoloFir3 == {"g1"}

Next ==
  \/ PeriodicLoop
  \/ PeriodicExit
  \/ PeriodicReady
  \/ PeriodicStatusFail
  \/ PeriodicWake
  \/ cog_unload
  \/ \E p \in {Periodic} \cup SoloFir : FetchOk(p)
  \/ \E p \in {Periodic} \cup SoloFir : FetchFail(p)
  \/ \E p \in {Periodic} \cup SoloFir : LoadOk(p)
  \/ \E p \in {Periodic} \cup SoloFir : LoadFail(p)
  \/ \E p \in {Periodic} \cup SoloFir \cup SoloFir3 : BuildNext(p)
  \/ \E p \in {Periodic} \cup SoloFir \cup SoloFir3 : BuildLast(p)
  \/ \E p \in {Periodic} \cup SoloFir \cup SoloFir3 : BuildFail(p)
  \/ \E p \in SoloFir : FirPass(p)
  \/ \E p \in SoloFir : FirAcquire(p)
  \/ \E p \in SoloFir : FirStartReady(p)
  \/ \E p \in SoloFir : FirStartWait(p)
  \/ \E p \in SoloFir : FirWoken(p)
  \/ \E p \in SoloFir : FirFinish(p)
  \/ \E p \in SoloFir3 : Fir3Pass(p)
  \/ \E p \in SoloFir3 : Fir3Acquire(p)
  \/ \E p \in SoloFir3 : Fir3Woken(p)
  \/ \E p \in SoloFir3 : Fir3Finish(p)
  \/ \E q \in Queries : QueryStart(q)
  \/ \E q \in Queries : QueryResolve(q)

Spec == Init /\ [][Next]_vars

\* GateSpec: the periodic task and concurrent invocations of both commands,
\* the cog staying registered.
GateNext ==
  \/ PeriodicLoop
  \/ PeriodicReady
  \/ PeriodicStatusFail
  \/ PeriodicWake
  \/ \E p \in FullReloaders : FetchOk(p)
  \/ \E p \in FullReloaders : FetchFail(p)
  \/ \E p \in FullReloaders : LoadOk(p)
  \/ \E p \in FullReloaders : LoadFail(p)
  \/ \E p \in Reloaders : BuildNext(p)
  \/ \E p \in Reloaders : BuildLast(p)
  \/ \E p \in Reloaders : BuildFail(p)
  \/ \E p \in FirProcs : FirReject(p)
  \/ \E p \in FirProcs : FirPass(p)
  \/ \E p \in FirProcs : FirAcquire(p)
  \/ \E p \in FirProcs : FirBlock(p)
  \/ \E p \in FirProcs : FirResume(p)
  \/ \E p \in FirProcs : FirStartReady(p)
  \/ \E p \in FirProcs : FirStartWait(p)
  \/ \E p \in FirProcs : FirWoken(p)
  \/ \E p \in FirProcs : FirFinish(p)
  \/ \E p \in Fir3Procs : Fir3Reject(p)
  \/ \E p \in Fir3Procs : Fir3Pass(p)
  \/ \E p \in Fir3Procs : Fir3Acquire(p)
  \/ \E p \in Fir3Procs : Fir3Block(p)
  \/ \E p \in Fir3Procs : Fir3Resume(p)
  \/ \E p \in Fir3Procs : Fir3Woken(p)
  \/ \E p \in Fir3Procs : Fir3Finish(p)

GateSpec == Init /\ [][GateNext]_vars

\* FairSpec: the periodic task, callers waiting for readiness and
\* cog_unload.  The event loop resumes every coroutine whose await is over:
\* the sleep of the periodic task ends, a resumed caller runs.
FairNext ==
  \/ PeriodicLoop
  \/ PeriodicExit
  \/ PeriodicReady
  \/ PeriodicStatusFail
  \/ PeriodicWake
  \/ cog_unload
  \/ FetchOk(Periodic)
  \/ FetchFail(Periodic)
  \/ LoadOk(Periodic)
  \/ LoadFail(Periodic)
  \/ BuildNext(Periodic)
  \/ BuildLast(Periodic)
  \/ BuildFail(Periodic)
  \/ \E w \in Waiters : WaitCall(w)
  \/ \E w \in Waiters : WaitReturn(w)
  \/ \E w \in Waiters : VerboseCall(w)
  \/ \E w \in Waiters : VerboseWait(w)
  \/ \E w \in Waiters : VerboseWoken(w)
  \/ \E w \in Waiters : VerboseReturn(w)

FairSpec ==
  /\ Init
  /\ [][FairNext]_vars
  /\ WF_vars(PeriodicWake)
  /\ WF_vars(PeriodicLoop)
  /\ WF_vars(PeriodicExit)
  /\ \A w \in Waiters :
       WF_vars(WaitReturn(w)) /\ WF_vars(VerboseWoken(w)) /\ WF_vars(VerboseReturn(w))

\* ConfigSpec: the periodic task, the check_index task and one invocation
\* of forceindexreload or of a debugmode command, the cog staying registered.
ConfigNext ==
  \/ PeriodicLoop
  \/ PeriodicReady
  \/ PeriodicStatusFail
  \/ PeriodicWake
  \/ \E p \in {Periodic} \cup SoloFir : FetchOk(p)
  \/ \E p \in {Periodic} \cup SoloFir : FetchFail(p)
  \/ \E p \in {Periodic} \cup SoloFir : ReadDebugMode(p)
  \/ \E p \in {Periodic} \cup SoloFir : LoadOk(p)
  \/ \E p \in {Periodic} \cup SoloFir : LoadFail(p)
  \/ \E p \in {Periodic} \cup SoloFir : BuildNext(p)
  \/ \E p \in {Periodic} \cup SoloFir : BuildLast(p)
  \/ \E p \in {Periodic} \cup SoloFir : BuildFail(p)
  \/ \E p \in SoloFir : \E e \in BOOLEAN : debug_enable(p, e)
  \/ \E p \in SoloFir : \E ms \in MonsterArgs : debug_monsters_add(p, ms)
  \/ \E p \in SoloFir : \E ms \in MonsterArgs : debug_monsters_rm(p, ms)
  \/ \E p \in SoloFir : DebugTick(p)
  \/ \E p \in SoloFir : FirPass(p)
  \/ \E p \in SoloFir : FirAcquire(p)
  \/ \E p \in SoloFir : FirStartReady(p)
  \/ \E p \in SoloFir : FirStartWait(p)
  \/ \E p \in SoloFir : FirWoken(p)
  \/ \E p \in SoloFir : FirFinish(p)
  \/ CheckCollect
  \/ CheckReport

\* the stored configuration is what an earlier run of the bot left
ConfigInit ==
  /\ debug_mode \in BOOLEAN
  /\ debug_mode_monsters = <<3260>>
  /\ InitCog

ConfigSpec == ConfigInit /\ [][ConfigNext]_vars

\* ListSpec: the periodic task and any number of invocations, one after
\* the other, of forceindexreload and of the debugmode commands.
ListNext ==
  \/ PeriodicLoop
  \/ PeriodicReady
  \/ PeriodicStatusFail
  \/ PeriodicWake
  \/ \E p \in {Periodic} \cup SoloFir : FetchOk(p)
  \/ \E p \in {Periodic} \cup SoloFir : FetchFail(p)
  \/ \E p \in {Periodic} \cup SoloFir : ReadDebugMode(p)
  \/ \E p \in {Periodic} \cup SoloFir : LoadOk(p)
  \/ \E p \in {Periodic} \cup SoloFir : LoadFail(p)
  \/ \E p \in {Periodic} \cup SoloFir : BuildNext(p)
  \/ \E p \in {Periodic} \cup SoloFir : BuildLast(p)
  \/ \E p \in {Periodic} \cup SoloFir : BuildFail(p)
  \/ \E p \in SoloFir : \E e \in BOOLEAN : debug_enable(p, e)
  \/ \E p \in SoloFir : \E ms \in MonsterArgs : debug_monsters_add(p, ms)
  \/ \E p \in SoloFir : \E ms \in MonsterArgs : debug_monsters_rm(p, ms)
  \/ \E p \in SoloFir : DebugTick(p)
  \/ \E p \in SoloFir : NextInvocation(p)
  \/ \E p \in SoloFir : FirPass(p)
  \/ \E p \in SoloFir : FirAcquire(p)
  \/ \E p \in SoloFir : FirStartReady(p)
  \/ \E p \in SoloFir : FirStartWait(p)
  \/ \E p \in SoloFir : FirWoken(p)
  \/ \E p \in SoloFir : FirFinish(p)

ListSpec == Init /\ [][ListNext]_vars

\* EvosSpec: evos_embed_field on every list of alt monsters; the monster of
\* the state is one of its alt monsters.
EvosInit ==
  /\ InitConfig
  /\ InitCheck
  /\ InitFlags
  /\ \E n \in 1..MaxAlts :
       /\ alt_monsters \in AltLists(n)
       /\ state_monster_id \in 1..n
  /\ evos_pc = "idle"
  /\ evos_field = NoField
  /\ InitRows
  /\ InitNaDiff
  /\ InitTasks

EvosNext == evos_embed_field

EvosSpec == EvosInit /\ [][EvosNext]_vars

\* NaDiffSpec: the two na diff methods on every view state and dict, called
\* in any order.
NaDiffInit ==
  /\ InitConfig
  /\ InitCheck
  /\ InitFlags
  /\ InitEvos
  /\ InitRows
  /\ view_state \in ViewStates
  /\ ims \in ImsDicts
  /\ ims_before = ims
  /\ nadiff_pc = [c \in NaDiffMethods |-> "idle"]
  /\ nadiff_message = None
  /\ nadiff_return = FALSE
  /\ InitTasks

NaDiffNext ==
  \/ GetNaDiff
  \/ SetNaDiff

NaDiffSpec == NaDiffInit /\ [][NaDiffNext]_vars

\* RowSpec: the two awakening rows of every monster, made in any order.
RowInit ==
  /\ InitConfig
  /\ InitCheck
  /\ InitFlags
  /\ InitEvos
  /\ row_m \in RowMonsters
  /\ row_pc = [r \in Rows |-> "idle"]
  /\ normal_row = None
  /\ super_row = None
  /\ InitNaDiff
  /\ InitTasks

RowNext ==
  \/ NormalRow
  \/ SuperRow

RowSpec == RowInit /\ [][RowNext]_vars

\* FlagSpec: callers of get_fm_flags while the stored flags of the authors
\* change.
FlagNext ==
  \/ \E a \in Authors : \E d \in StoredFlags : SetUserFlags(a, d)
  \/ \E c \in FlagCallers : \E a \in Authors : GetFlagsCall(c, a)
  \/ \E c \in FlagCallers : GetFlagsReturn(c)

FlagSpec == Init /\ [][FlagNext]_vars

TypeOK ==
  /\ is_ready \in BOOLEAN
  /\ database \in 0..MaxGen
  /\ indexes \in [ServerSet -> 0..MaxGen]
  /\ nextGen \in 0..MaxGen
  /\ completed \in 0..MaxGen

\* ------------------------------------------------------------------ claims
\* positions inside download_and_refresh_nicknames or create_index
InRefresh == {"dl_fetch", "dl_debug", "dl_ids", "ci_build"}

\* v is a published generation: a database and the index of every server
\* built from its graph
Published(v) == v.db # 0 /\ \A s \in ServerSet : v.idx[s] = v.db

\* C1: while a refresh is suspended, the database and every index a query
\* can observe come from the same generation: no index built from another
\* database than the current one, no two indexes of different databases.
C1_AtomicPublish ==
  (\E p \in Reloaders : pc[p] \in InRefresh) =>
    /\ \A s \in ServerSet : (database # 0 /\ indexes[s] # 0) => indexes[s] = database
    /\ \A s, t \in ServerSet : (indexes[s] # 0 /\ indexes[t] # 0) => indexes[s] = indexes[t]

\* the step of p is an exception raised by the fetch, the load or an index build
FailStep(p) == pc[p] \in InRefresh /\ pc'[p] \in {"p_sleep", "done"}

\* no command was ever invoked and the cog is still registered: only the
\* periodic task has written the database and the indexes
OnlyPeriodic == registered /\ \A p \in FirProcs \cup Fir3Procs : pc[p] = "idle"

\* C2: when a periodic attempt that started from a published generation
\* fails in the fetch, the load or an index build, nothing else having
\* touched the cog, the database and the indexes after the failure are
\* those from before the attempt.
C2_FailureKeepsGeneration ==
  [][(FailStep(Periodic) /\ OnlyPeriodic /\ Published(before)) =>
       (database' = before.db /\ indexes' = before.idx)]_vars

\* C3: a query called while a generation is published resolves against
\* that generation, also when another one is published before it resolves
\* (the cog staying registered).
C3_QueryGeneration ==
  [][\A q \in Queries :
       (qpc[q] = "q_flags" /\ qpc'[q] = "q_done" /\ registered /\ Published(qstart[q])) =>
         Visible = qstart[q]]_vars

\* C4 as stated: once set, the ready flag is never cleared by any operation.
C4_NeverCleared == [][is_ready => is_ready']_vars

\* C4 amended: the ready flag is cleared by cog_unload only; no refresh
\* success, refresh failure or forced reload clears it.
C4_ClearedOnlyByUnload ==
  [][(is_ready /\ ~is_ready') => (registered /\ ~registered' /\ database' = 0)]_vars

\* a periodic attempt failed after the flag was set and the flag is still set
C4_Witness == is_ready /\ short_wait /\ pc[Periodic] = "p_sleep" /\ registered

C6_ReadyImpliesServing ==
  is_ready => (database # 0 /\ mon_finder /\ \A s \in ServerSet : indexes[s] # 0)

\* C7: at most one run of download_and_refresh_nicknames is in progress,
\* the periodic task and forceindexreload counted together.
C7_OneFullReload ==
  Cardinality({p \in FullReloaders : pc[p] \in InRefresh}) <= 1

\* C8: at most one create_index call of forceindexreload3 is in progress.
C8_OneIndexReload ==
  Cardinality({p \in Fir3Procs : pc[p] = "ci_build"}) <= 1

\* one invocation builds the indexes while the other waits for fir3_lock
C8_Witness ==
  \E p, q \in Fir3Procs : p # q /\ pc[p] = "ci_build" /\ pc[q] = "g_lockwait"

\* C9: no invocation of forceindexreload or forceindexreload3 is ever
\* suspended waiting to acquire fir_lock or fir3_lock.
C9_NeverQueued ==
  \A p \in FirProcs \cup Fir3Procs : pc[p] \notin {"f_lockwait", "g_lockwait"}

\* C10: an invocation is rejected or made to wait by its own gate only:
\* forceindexreload3 only when fir3_lock is taken, forceindexreload only
\* when fir_lock is taken, whatever the state of the other lock.
C10_GatesIndependent ==
  [][/\ \A p \in Fir3Procs :
          /\ (pc[p] = "idle" /\ pc'[p] = "done") => Locked(fir3_lock)
          /\ (pc[p] = "g_typing" /\ pc'[p] = "g_lockwait") => ~CanAcquire(fir3_lock)
     /\ \A p \in FirProcs :
          /\ (pc[p] = "idle" /\ pc'[p] = "done") => Locked(fir_lock)
          /\ (pc[p] = "f_typing" /\ pc'[p] = "f_lockwait") => ~CanAcquire(fir_lock)]_vars

\* both gates are held: a full reload of forceindexreload is under way
\* while forceindexreload3 builds its indexes
C10_Witness ==
  /\ Locked(fir_lock)
  /\ Locked(fir3_lock)
  /\ \E p \in FirProcs : pc[p] \in InRefresh
  /\ \E p \in Fir3Procs : pc[p] = "ci_build"

\* C11: the periodic task sleeps SHORT_WAIT after an attempt that raised
\* and LONG_WAIT after an attempt that succeeded, whatever the attempts
\* before it did.
C11_WaitFollowsOutcome ==
  pc[Periodic] = "p_sleep" =>
    /\ outcome \in {"ok", "raised"}
    /\ wait_time = (IF outcome = "raised" THEN SHORT_WAIT ELSE LONG_WAIT)

\* the normal interval after a success that follows a failed attempt: a
\* database was loaded by an attempt that did not complete
C11_Witness ==
  /\ pc[Periodic] = "p_sleep"
  /\ outcome = "ok"
  /\ wait_time = LONG_WAIT
  /\ OnlyPeriodic
  /\ nextGen > completed

\* C12: a failed periodic attempt is followed by another attempt unless the
\* cog is unregistered meanwhile, and reload_data_task ends only when the
\* cog is no longer registered.
C12_FailureRetried ==
  /\ [](pc[Periodic] = "p_exit" => ~registered)
  /\ (outcome = "raised") ~> (outcome = "none" \/ ~registered)

\* a new attempt runs after an attempt that loaded a database and failed
C12_Witness ==
  /\ pc[Periodic] = "dl_fetch"
  /\ registered
  /\ nextGen > completed

\* C13: a query never waits for a reload gate: whatever the state of
\* fir_lock and fir3_lock, a query can be called while the cog is
\* registered, and a called query can take its next step and resolve.
C13_QueriesNeverWait ==
  \A q \in Queries :
    /\ (qpc[q] = "idle" /\ registered) => ENABLED QueryStart(q)
    /\ qpc[q] = "q_flags" => ENABLED QueryResolve(q)

\* a query is under way while both gates are held
C13_Witness ==
  /\ \E q \in Queries : qpc[q] = "q_flags"
  /\ Locked(fir_lock)
  /\ Locked(fir3_lock)

\* positions of a caller suspended in Event.wait()
Suspended == {"waiting", "v_waiting"}

\* C14: readiness is a one-shot broadcast: no caller stays suspended once
\* the flag is set, a call made while the flag is set returns without
\* suspending, and a suspended caller returns eventually unless the flag
\* is never set.
C14_OneShotBroadcast ==
  /\ [](\A w \in Waiters : wpc[w] \in Suspended => ~is_ready)
  /\ [][\A w \in Waiters :
          (wpc[w] = "idle" /\ wpc'[w] # "idle" /\ is_ready) => wpc'[w] = "returned"]_vars
  /\ \A w \in Waiters :
       [](wpc[w] \in Suspended => (<>(wpc[w] = "returned") \/ []~is_ready))

\* the flag was set while two callers were suspended: both are released
C14_Witness ==
  /\ is_ready
  /\ \A w \in Waiters : wpc[w] \in {"woken", "v_woken"}

\* place of a source in the order of collection: the graph, the index of
\* every server in the order of SERVERS, the self-tests
SourceRank(src) ==
  IF src = "graph" THEN 0
  ELSE IF src = "tests" THEN Len(SERVERS) + 1
  ELSE CHOOSE i \in 1..Len(SERVERS) : SERVERS[i] = src

\* line a comes before line b in the order of collection
Before(a, b) ==
  \/ SourceRank(a[1]) < SourceRank(b[1])
  \/ SourceRank(a[1]) = SourceRank(b[1]) /\ a[2] < b[2]

\* the lines the finished run collected, and how many they are
Collected ==
  {<<"graph", i>> : i \in 1..Len(graph_issues)}
    \cup UNION {{<<s, i>> : i \in 1..Len(index_issues[s])} : s \in ServerSet}
    \cup {<<"tests", i>> : i \in 1..Len(test_results)}

\* the report holds at most 100 lines
CappedReport == Len(report.list) <= REPORT_CAP

\* the report is the first lines of the collection, in its order
OrderedReport ==
  LET r == report.list
      sent == {r[i] : i \in 1..Len(r)}
  IN  /\ sent \subseteq Collected
      /\ \A i \in 1..(Len(r) - 1) : Before(r[i], r[i + 1])
      /\ Len(r) = (IF Cardinality(Collected) < REPORT_CAP
                     THEN Cardinality(Collected) ELSE REPORT_CAP)
      /\ \A l \in Collected \ sent : Before(r[Len(r)], l)

\* a report is sent exactly when issues were collected from a graph that
\* was not built in restricted mode
SentIff == ~report.none <=> (Collected # {} /\ ci_debug.none)

\* C15: a finished run of check_index has forwarded at most 100 issue
\* lines, in order from the graph's issues, every index's issues and the
\* self-test results, and has sent a report if and only if it collected
\* issues and the graph they come from was not built in restricted mode.
C15_ReportContract ==
  ci_pc = "done" => (SentIff /\ (~report.none => (CappedReport /\ OrderedReport)))

\* what a finished run has sent is capped and in order
ReportCappedInOrder ==
  ci_pc = "done" /\ ~report.none => (CappedReport /\ OrderedReport)

\* the step of p in which get_debug_monsters returns and the database is
\* replaced
LoadStep(p) == pc[p] \in {"dl_debug", "dl_ids"} /\ pc'[p] = "ci_build"

\* C17: every refresh calls get_debug_monsters once, after the fetch and
\* before the database is replaced, and loads with what it returns: the
\* configured debug_mode_monsters when it found debug_mode enabled, None
\* otherwise.
C17_DebugIdsReadOnce ==
  /\ [](\A p \in FullReloaders :
         /\ pc[p] \in {"dl_fetch", "dl_debug"} => calls[p] = 0
         /\ pc[p] \in {"dl_ids", "ci_build"} => calls[p] = 1)
  /\ [][\A p \in FullReloaders :
         /\ (pc[p] = "dl_debug" /\ pc'[p] = "dl_ids") => debug_mode
         /\ LoadStep(p) =>
              /\ pc[p] = "dl_debug" => ~debug_mode
              /\ debug_ids' = (IF pc[p] = "dl_ids"
                                 THEN [none |-> FALSE, list |-> debug_mode_monsters]
                                 ELSE [none |-> TRUE, list |-> <<>>])
              /\ database' # database]_vars
  /\ [][database' \notin {database, 0} =>
         \E p \in FullReloaders : LoadStep(p) /\ calls'[p] = 1]_vars

\* a forced reload has loaded with a list that a debugmode command changed
C17_Witness ==
  /\ pc["f1"] = "ci_build"
  /\ calls["f1"] = 1
  /\ database = nextGen
  /\ debug_ids = Some(<<3260, 1>>)

\* the keys of a dict
Keys(d) == {d[i][1] : i \in 1..Len(d)}

\* C16: what get_fm_flags returns holds, for every key, the value the
\* author has stored now if the author has stored that key and the default
\* otherwise, and no other key; fm_flags_default is never modified; the
\* stored flags are read at every call, so that the second of two calls
\* returns the flags stored between them.
C16_LayeredMerge ==
  /\ [][fm_flags_default' = fm_flags_default]_vars
  /\ [][\A c \in FlagCallers :
         (fpc[c] = "reading" /\ fpc'[c] = "returned") =>
           LET u == user_flags[fauthor[c]]
               r == fresult'[c]
           IN  /\ Keys(r) = Keys(fm_flags_default) \cup Keys(u)
               /\ \A k \in Keys(r) :
                    Get(r, k) = IF Has(u, k) THEN Get(u, k) ELSE Get(fm_flags_default, k)
               /\ \A i, j \in 1..Len(r) : i # j => r[i][1] # r[j][1]]_vars

\* two calls for the same author have returned: one the defaults, the
\* other an override of 'server' stored meanwhile over the default 'na_prio'
C16_Witness ==
  /\ fpc["c1"] = "returned" /\ fpc["c2"] = "returned"
  /\ fauthor["c1"] = fauthor["c2"]
  /\ Get(fresult["c1"], "server") = "DEFAULT_SERVER"
  /\ Get(fresult["c2"], "server") = "NA"
  /\ Get(fresult["c2"], "na_prio") = "True"

\* no periodic refresh, forceindexreload or forceindexreload3 is in progress
Quiescent ==
  /\ pc[Periodic] \in {"p_loop", "p_sleep", "p_exit"}
  /\ \A p \in FirProcs \cup Fir3Procs : pc[p] \in {"idle", "done"}

\* C18: in every quiescent state the index of every server was built from
\* the graph of the published database, also after an index-only reload
\* overlapped a full reload; stated for the runs in which every database
\* loaded was followed by a complete build of its indexes.
C18_QuiescentConsistent ==
  (Quiescent /\ database # 0 /\ completed = nextGen) =>
    \A s \in ServerSet : indexes[s] = database

\* positions of a command between taking its lock and releasing it
Holding ==
  {"f_start", "f_waitready", "f_woken", "f_finish", "g_waitready", "g_woken", "g_finish"}
    \cup InRefresh

\* the lock of the command p invokes
Gate(p, fl, gl) == IF p \in FirProcs THEN fl ELSE gl

\* invocations of the same command
SameCommand(p, q) == (p \in FirProcs) = (q \in FirProcs)

\* C19: a forced reload fetches and builds only after the first refresh
\* completed; while it waits for the ready flag it holds its lock, and it
\* goes on only when the flag is set; an invocation of the same command
\* during that wait is rejected; when the reload finishes or raises, its
\* lock is released.
C19_GateHeldUntilReady ==
  /\ [](\A p \in FirProcs \cup Fir3Procs :
         /\ pc[p] \in InRefresh \cup {"f_finish", "g_finish"} => completed >= 1
         /\ pc[p] \in Holding => Locked(Gate(p, fir_lock, fir3_lock)))
  /\ [][\A p \in FirProcs \cup Fir3Procs :
         /\ (pc[p] \in {"f_waitready", "g_waitready"} /\ pc'[p] # pc[p]) =>
              (~is_ready /\ is_ready' /\ pc'[p] \in {"f_woken", "g_woken"})
         /\ (pc[p] = "idle" /\ pc'[p] # "idle"
               /\ \E q \in FirProcs \cup Fir3Procs :
                    SameCommand(p, q) /\ pc[q] \in {"f_waitready", "g_waitready"}) =>
              pc'[p] = "done"
         /\ (pc[p] \in Holding /\ pc'[p] = "done") =>
              ~Locked(Gate(p, fir_lock', fir3_lock'))]_vars

\* both commands wait for the first refresh holding their locks, and a
\* second invocation of each was rejected
C19_Witness ==
  /\ ~is_ready /\ completed = 0
  /\ pc["f1"] = "f_waitready" /\ pc["f2"] = "done"
  /\ pc["g1"] = "g_waitready" /\ pc["g2"] = "done"

\* C20: after cog_unload the database stays None and the ready flag stays
\* cleared, whatever refresh or reload was running when the cog was unloaded.
C20_StaysTornDown == ~registered => (database = 0 /\ ~is_ready)

\* the ids a list holds
Ids(l) == {l[i] : i \in 1..Len(l)}

\* every id occurs at most once in l
NoDuplicates(l) == \A i, j \in 1..Len(l) : i # j => l[i] # l[j]

\* C21: debug_mode_monsters never holds an id twice; after
\* debug_monsters_add every id of the call is in the list and the ids it
\* held before still are, after debug_monsters_rm no id of the call is and
\* the others still are; forceindexreload is entered from these commands
\* only when debug_mode is enabled.
C21_AllowListIsSet ==
  /\ [](NoDuplicates(debug_mode_monsters))
  /\ [][\A p \in FirProcs : \A ms \in MonsterArgs :
         /\ debug_monsters_add(p, ms) =>
              Ids(debug_mode_monsters') = Ids(debug_mode_monsters) \cup Ids(ms)
         /\ debug_monsters_rm(p, ms) =>
              Ids(debug_mode_monsters') = Ids(debug_mode_monsters) \ Ids(ms)]_vars
  /\ [][\A p \in FirProcs :
         pc[p] = "d_mode" =>
           /\ pc'[p] = "f_typing" => debug_mode
           /\ (pc'[p] # "d_mode" /\ ~debug_mode) => pc'[p] = "done"]_vars

\* after several calls, one with an id repeated, the list holds both ids
\* once, the default id last, and debug_monsters_add has entered a reload
C21_Witness ==
  /\ debug_mode_monsters = <<1, 3260>>
  /\ debug_mode
  /\ pc["f1"] = "f_typing"

\* the label is the number of the monster in these brackets
Bracketed(label, me, fmt) ==
  label = <<fmt[1], me.monster.monster_no_na, fmt[2]>>

\* the evolution edge of me is present and not reversible
IrreversibleEdge(me) == ~me.evolution.none /\ ~me.evolution.reversible

\* C22: every label alt_fmt renders has equip brackets exactly when the
\* monster is an equip, whatever its evolution edge, irreversible brackets
\* exactly when the monster is not an equip and its edge is present with
\* reversible false, and no brackets exactly when it is not an equip and
\* has no edge or a reversible one.
C22_BracketPrecedence ==
  evos_pc = "done" =>
    \A i \in 1..Len(alt_monsters) :
      LET me == alt_monsters[i]
          label == evos_field.links[i]
      IN  /\ Bracketed(label, me, EquipFmt) <=> me.monster.is_equip
          /\ Bracketed(label, me, IrreversibleFmt) <=>
                (~me.monster.is_equip /\ IrreversibleEdge(me))
          /\ Bracketed(label, me, PlainFmt) <=>
                (~me.monster.is_equip /\ ~IrreversibleEdge(me))

\* the labels of an equip with an irreversible edge, of a monster with an
\* irreversible edge and of a monster without edge were rendered
C22_Witness ==
  /\ evos_pc = "done"
  /\ Len(alt_monsters) = 3
  /\ alt_monsters[1].monster.is_equip /\ IrreversibleEdge(alt_monsters[1])
  /\ ~alt_monsters[2].monster.is_equip /\ IrreversibleEdge(alt_monsters[2])
  /\ ~alt_monsters[3].monster.is_equip /\ alt_monsters[3].evolution.none
  /\ evos_field.links = <<Format(EquipFmt, 1), Format(IrreversibleFmt, 2), Format(PlainFmt, 3)>>

\* the legend entry is in the name of the field
InLegend(entry) == \E i \in 1..Len(evos_field.name) : evos_field.name[i] = entry

\* C23: the name of the Evos field holds the Irreversible entry if and only
\* if a label of the field has irreversible brackets, and the Equip entry if
\* and only if a label has equip brackets.
C23_LegendMatchesLabels ==
  evos_pc = "done" =>
    /\ InLegend("Irreversible") <=>
          \E i \in 1..Len(alt_monsters) :
            Bracketed(evos_field.links[i], alt_monsters[i], IrreversibleFmt)
    /\ InLegend("Equip") <=>
          \E i \in 1..Len(alt_monsters) :
            Bracketed(evos_field.links[i], alt_monsters[i], EquipFmt)

\* the Equip half of the legend
EquipLegendMatches ==
  evos_pc = "done" =>
    (InLegend("Equip") <=>
       \E i \in 1..Len(alt_monsters) :
         Bracketed(evos_field.links[i], alt_monsters[i], EquipFmt))

\* C24: for every monster, the entries of normal_awakenings_row followed by
\* the entries of super_awakenings_row after its question mark are the
\* awakenings of the monster, each once and in their order; the super row
\* holds the last superawakening_count of them, and it is None exactly when
\* superawakening_count is 0.
C24_RowsPartition ==
  (\A r \in Rows : row_pc[r] = "done") =>
    LET all == Texts(row_m.awakenings)
        n == Len(row_m.awakenings)
        sa == row_m.superawakening_count
        supers == IF super_row.none THEN <<>> ELSE Tail(super_row.list)
    IN  /\ ~normal_row.none
        /\ normal_row.list \o supers = all
        /\ supers = [i \in 1..sa |-> all[n - sa + i]]
        /\ super_row.none <=> sa = 0
        /\ ~super_row.none => Head(super_row.list) = Text(get_emoji("sa_questionmark"))

\* both rows of a monster with two normal awakenings and one super
\* awakening were made
C24_Witness ==
  /\ \A r \in Rows : row_pc[r] = "done"
  /\ row_m = [awakenings |-> <<Awakening(27), Awakening(43), Awakening(27)>>,
              superawakening_count |-> 1]
  /\ normal_row = Box(<<Text(get_awakening_text(Awakening(27))),
                        Text(get_awakening_text(Awakening(43)))>>)
  /\ super_row = Box(<<Text(get_emoji("sa_questionmark")),
                       Text(get_awakening_text(Awakening(27)))>>)

\* the monster of the view state is on NA only / on JP only / on both
\* regions or on neither
NaOnly == view_state.monster.on_na /\ ~view_state.monster.on_jp
JpOnly == view_state.monster.on_jp /\ ~view_state.monster.on_na
SameRegions == view_state.monster.on_na = view_state.monster.on_jp

\* the message made of the query of the view state and a text
MessageWith(text) == invalid_monster_text(view_state.query, view_state.monster, text)

\* the keys of d other than message keep their place and value in e
OthersKept(d, e) ==
  /\ Len(e) >= Len(d)
  /\ \A i \in 1..Len(d) : d[i][1] # "message" => e[i] = d[i]
  /\ \A i \in 1..Len(e) : e[i][1] # "message" => (i <= Len(d) /\ e[i] = d[i])

\* C25: get_na_diff_invalid_message returns the NA-only message when the
\* monster is on NA and not on JP, the JP-only message when it is on JP and
\* not on NA, the identical message when the regions are the same and
\* is_jp_buffed is false, and None if and only if the regions are the same
\* and is_jp_buffed is true; set_na_diff_invalid_message returns True and
\* leaves that message in ims['message'] exactly when the message is not
\* None, and returns False with ims unchanged otherwise.
C25_NaDiffMessage ==
  /\ nadiff_pc["get"] = "done" =>
       /\ NaOnly => nadiff_message = Some(MessageWith(nadiff_na_only_text))
       /\ JpOnly => nadiff_message = Some(MessageWith(nadiff_jp_only_text))
       /\ (SameRegions /\ ~view_state.is_jp_buffed) =>
            nadiff_message = Some(MessageWith(nadiff_identical_text))
       /\ nadiff_message.none <=> (SameRegions /\ view_state.is_jp_buffed)
  /\ nadiff_pc["set"] = "done" =>
       /\ nadiff_return <=> ~(SameRegions /\ view_state.is_jp_buffed)
       /\ nadiff_return =>
            /\ Has(ims, "message")
            /\ Get(ims, "message") =
                 MessageWith(IF NaOnly THEN nadiff_na_only_text
                             ELSE IF JpOnly THEN nadiff_jp_only_text
                             ELSE nadiff_identical_text)
            /\ OthersKept(ims_before, ims)
       /\ ~nadiff_return => ims = ims_before
       /\ nadiff_pc["get"] = "done" => (nadiff_return <=> ~nadiff_message.none)

\* both methods were called for a monster that is on NA only, not buffed,
\* with a dict that held another message
C25_Witness ==
  /\ \A c \in NaDiffMethods : nadiff_pc[c] = "done"
  /\ NaOnly /\ ~view_state.is_jp_buffed
  /\ view_state.query = "q1"
  /\ ims_before = <<<<"menu_type", <<"IdMenu">>>>, <<"message", <<"q0", "old">>>>>>
  /\ ims = <<<<"menu_type", <<"IdMenu">>>>, <<"message", <<"q1", nadiff_na_only_text>>>>>>
  /\ nadiff_return
  /\ nadiff_message = Some(<<"q1", nadiff_na_only_text>>)
====
